---- MODULE Spec2Model ----
(***************************************************************************)
(* Model of the webhook path of the GaggiMate web UI:                      *)
(*   - WebhookService (getWebhookSettings, formatWebhookPayload,           *)
(*     sendWebhook, validateWebhookUrl), and                               *)
(*   - HistoryCard's handleSendWebhook with its "Send to webhook" button.  *)
(*                                                                         *)
(* JavaScript values are tagged records.  A string is a sequence of        *)
(* tokens: " " is a whitespace character, "http://", "https://" and        *)
(* "ftp://" are scheme prefixes, every other token is an ordinary          *)
(* character run.  Each await of the code is a suspension point: one       *)
(* action runs the code between two awaits.                                *)
(***************************************************************************)
EXTENDS Integers, Sequences, FiniteSets, TLC

VARIABLES
  task,              \* slot -> the sendWebhook invocation running in it
  settingsReq,       \* slot -> the getWebhookSettings call running in it
  handler,           \* slot -> the handleSendWebhook invocation running in it
  isSendingWebhook,  \* HistoryCard state (useState, line 35)
  shotLoaded,        \* shot.loaded, a prop of HistoryCard
  shotNotes,         \* HistoryCard state (useState, line 30)
  lastAlert          \* the text of HistoryCard's latest alert() call

vars ==
  <<task, settingsReq, handler, isSendingWebhook, shotLoaded, shotNotes, lastAlert>>
cardVars == <<handler, isSendingWebhook, shotLoaded, shotNotes, lastAlert>>

(***************************************************************************)
(* Bounds                                                                  *)
(***************************************************************************)
\* number of handleSendWebhook invocations that can exist at the same time
MaxInvocations == 2

Slots == 1..MaxInvocations
\* the slot used by a caller other than the card
DirectSlot == CHOOSE i \in Slots : \A j \in Slots : i <= j

(***************************************************************************)
(* JavaScript values                                                       *)
(***************************************************************************)
Null == [type |-> "null"]
Undefined == [type |-> "undefined"]
Str(chars) == [type |-> "string", chars |-> chars]
EmptyStr == Str(<<>>)
False == [type |-> "boolean", value |-> FALSE]
Num(n) == [type |-> "number", value |-> n]
EmptyArray == [type |-> "array", items |-> <<>>]

\* JavaScript truthiness of the values used here: null, undefined, false and
\* the empty string are falsy, objects, arrays and other strings are truthy.
Truthy(v) ==
  CASE v.type = "null" -> FALSE
    [] v.type = "undefined" -> FALSE
    [] v.type = "boolean" -> v.value
    [] v.type = "string" -> v.chars # <<>>
    [] v.type = "number" -> v.value # 0
    [] OTHER -> TRUE

\* a || b
Or(a, b) == IF Truthy(a) THEN a ELSE b

\* String.prototype.trim on a token sequence
RECURSIVE TrimLeft(_)
TrimLeft(s) == IF s # <<>> /\ Head(s) = " " THEN TrimLeft(Tail(s)) ELSE s

RECURSIVE TrimRight(_)
TrimRight(s) ==
  IF s # <<>> /\ s[Len(s)] = " " THEN TrimRight(SubSeq(s, 1, Len(s) - 1)) ELSE s

Trim(s) == TrimRight(TrimLeft(s))

\* !v || v.trim() === '' for v null or a string
Blank(v) == ~Truthy(v) \/ Trim(v.chars) = <<>>

(***************************************************************************)
(* URLs                                                                    *)
(***************************************************************************)
Schemes == {"http://", "https://", "ftp://"}

Protocol(scheme) ==
  CASE scheme = "http://" -> "http:"
    [] scheme = "https://" -> "https:"
    [] scheme = "ftp://" -> "ftp:"

\* new URL(url) without a base: leading and trailing whitespace is stripped,
\* a scheme is required, and the host of these schemes is non-empty and holds
\* neither whitespace nor another scheme.  A failure is the thrown TypeError.
ParseUrl(chars) ==
  LET t == Trim(chars) IN
    IF t = <<>> \/ Head(t) \notin Schemes THEN [ok |-> FALSE]
    ELSE IF Tail(t) = <<>> \/ \E i \in 2..Len(t) : t[i] \in Schemes \cup {" "}
      THEN [ok |-> FALSE]
      ELSE [ok |-> TRUE, protocol |-> Protocol(Head(t)), host |-> Tail(t)]

validateWebhookUrl(url) ==
  IF Blank(url) THEN FALSE
  ELSE LET parsed == ParseUrl(url.chars) IN
    IF parsed.ok THEN parsed.protocol = "http:" \/ parsed.protocol = "https:"
    ELSE FALSE

\* fetch(url, ...) in the page: a string without a scheme is a relative
\* reference and resolves against the page's own URL, so a request is sent for
\* it; an absolute URL is requested only when it parses and is http or https.
\* Otherwise fetch rejects with a TypeError and nothing is sent.
Fetchable(url) ==
  LET t == Trim(url.chars) IN
    IF t # <<>> /\ Head(t) \in Schemes
      THEN ParseUrl(t).ok /\ ParseUrl(t).protocol \in {"http:", "https:"}
      ELSE TRUE

(***************************************************************************)
(* Errors                                                                  *)
(***************************************************************************)
Error(message) == [name |-> "Error", message |-> message]
TypeError == [name |-> "TypeError", message |-> <<"TypeError">>]
SyntaxError == [name |-> "SyntaxError", message |-> <<"Unexpected token">>]

MsgInvalidShot == <<"Invalid shot data: shot is required">>
MsgNotConfigured == <<"Webhook URL is not configured">>
MsgAuth == <<"Authentication failed - please check your auth token">>
MsgValidation ==
  <<"Data validation failed - the webhook server rejected the data format">>
MsgNetwork == <<"Network error: Unable to connect to webhook URL">>
MsgHttp(status, errorText) == <<"HTTP ", status, ": ", errorText>>

Returned(value) == [ok |-> TRUE, value |-> value]
Thrown(error) == [ok |-> FALSE, error |-> error]
NoResult == [ok |-> FALSE, error |-> [name |-> "none", message |-> <<>>]]

\* the catch block of sendWebhook: a TypeError is replaced by the network
\* error, anything else is thrown again
CatchFetchError(fetchError) ==
  IF fetchError.name = "TypeError" THEN Thrown(Error(MsgNetwork))
  ELSE Thrown(fetchError)

(***************************************************************************)
(* getWebhookSettings                                                      *)
(***************************************************************************)
EmptyConfig == [url |-> EmptyStr, authToken |-> EmptyStr]

\* the object built from the parsed settings; reading a property of null
\* throws a TypeError, which the catch block turns into the empty config
SettingsToConfig(settings) ==
  IF settings.type # "object" THEN EmptyConfig
  ELSE [url |-> Or(settings.webhookUrl, EmptyStr),
        authToken |-> Or(settings.webhookAuthToken, EmptyStr)]

IdleSettingsReq == [pc |-> "idle", outcome |-> "none", fetched |-> Undefined,
                    result |-> EmptyConfig]

\* the call up to its first await: fetch('/api/settings') is issued
StartGetWebhookSettings ==
  [pc |-> "fetch", outcome |-> "none", fetched |-> Undefined,
   result |-> EmptyConfig]

(***************************************************************************)
(* formatWebhookPayload                                                    *)
(***************************************************************************)
formatWebhookPayload(shot, notes) ==
  IF ~Truthy(shot) THEN Thrown(Error(MsgInvalidShot))
  ELSE Returned([type |-> "object",
                 id |-> shot.id,
                 timestamp |-> shot.timestamp,
                 profile |-> shot.profile,
                 profileId |-> shot.profileId,
                 duration |-> shot.duration,
                 volume |-> shot.volume,
                 incomplete |-> Or(shot.incomplete, False),
                 samples |-> Or(shot.samples, EmptyArray),
                 notes |-> Or(Or(notes, shot.notes), Null)])

\* JSON.stringify(payload): throws a TypeError on a cyclic value
Serializable(payload) ==
  payload.notes.type = "object" => ~payload.notes.cyclic

Stringify(payload) ==
  IF Serializable(payload) THEN Returned(<<"json", payload>>)
  ELSE Thrown(TypeError)

\* response.json(): the parsed body, or the SyntaxError of an invalid one
ParseJson(text) ==
  IF Len(text) >= 2 /\ Head(text) = "{" /\ text[Len(text)] = "}"
    THEN Returned([type |-> "object", members |-> SubSeq(text, 2, Len(text) - 1)])
    ELSE Thrown(SyntaxError)

(***************************************************************************)
(* Inputs                                                                  *)
(***************************************************************************)
NotesObject == [type |-> "object", cyclic |-> FALSE, text |-> <<"n">>]
ShotNotesObject == [type |-> "object", cyclic |-> FALSE, text |-> <<"s">>]
\* a notes object that refers to itself: JSON.stringify rejects it
CyclicNotes == [type |-> "object", cyclic |-> TRUE, text |-> <<"c">>]

ShotWith(notes) ==
  [type |-> "object", id |-> Num(7), timestamp |-> Num(1), profile |-> Str(<<"p">>),
   profileId |-> Str(<<"q">>), duration |-> Num(30), volume |-> Num(36),
   incomplete |-> Undefined, samples |-> Undefined, notes |-> notes]

Shots == {Null, ShotWith(Undefined), ShotWith(ShotNotesObject)}
NotesArgs == {Null, EmptyStr, NotesObject, CyclicNotes}

\* overrides and fetched values are different strings, so that a resolved
\* value shows where it came from
UrlArgs == {Null, EmptyStr, Str(<<" ">>), Str(<<"http://", "o">>), Str(<<"o">>)}
TokenArgs == {Null, EmptyStr, Str(<<" ">>), Str(<<"o", " ">>)}

FetchedUrls == {Undefined, EmptyStr, Str(<<" ">>), Str(<<"https://", "s">>),
                Str(<<"ftp://", "s">>), Str(<<"s">>)}
FetchedTokens == {Undefined, Str(<<" ">>), Str(<<" ", "s">>)}

\* what response.json() of the settings request can resolve to
SettingsBodies ==
  {Null} \cup
  {[type |-> "object", webhookUrl |-> u, webhookAuthToken |-> k] :
     u \in FetchedUrls, k \in FetchedTokens}

Statuses == {200, 401, 403, 422, 500}
ContentTypes == {Null, Str(<<"application/json", "; charset=utf-8">>),
                 Str(<<"text/plain">>)}
Bodies == {<<"boom">>, <<"{", "ok", "}">>}

(***************************************************************************)
(* sendWebhook                                                             *)
(***************************************************************************)
NoRequest == [issued |-> FALSE]
NoResponse == [received |-> FALSE]

IdleTask ==
  [pc |-> "idle", shot |-> Null, notes |-> Null, webhookUrl |-> Null,
   authToken |-> Null, url |-> Null, token |-> Null, request |-> NoRequest,
   response |-> NoResponse, result |-> NoResult, log |-> <<>>]

\* response.ok
ResponseOk(status) == status >= 200 /\ status <= 299

\* contentType && contentType.includes('application/json')
IsJsonContentType(contentType) ==
  Truthy(contentType) /\
  \E k \in 1..Len(contentType.chars) : contentType.chars[k] = "application/json"

BaseHeaders ==
  ("Content-Type" :> <<"application/json">>) @@
  ("Accept" :> <<"application/json">>) @@
  ("User-Agent" :> <<"GaggiMate-WebUI/1.0">>)

HasTokenUntrimmed(token) == Truthy(token)

\* token && token.trim() !== ''
HasToken(token) == Truthy(token) /\ Trim(token.chars) # <<>>

BuildHeaders(token) ==
  IF HasToken(token)
    THEN BaseHeaders @@ ("Authorization" :> (<<"Bearer ">> \o token.chars))
    ELSE BaseHeaders

Finish(t, result) == [t EXCEPT !.pc = "done", !.result = result]

\* the try block up to the await of fetch: the payload is serialized, then
\* fetch is called; a URL fetch cannot request is rejected without a request
IssuePost(t, payload) ==
  LET body == Stringify(payload) IN
    IF ~body.ok THEN Finish(t, CatchFetchError(body.error))
    ELSE [t EXCEPT !.pc = "post",
                   !.request = [issued |-> TRUE, sent |-> Fetchable(t.url),
                                url |-> t.url, headers |-> BuildHeaders(t.token),
                                body |-> body.value],
                   !.log = Append(t.log, "post")]

SendAfterConfigPayloadFirst(t) ==
  LET payload == formatWebhookPayload(t.shot, t.notes) IN
    IF ~payload.ok THEN Finish(t, payload)
    ELSE IF Blank(t.url) THEN Finish(t, Thrown(Error(MsgNotConfigured)))
    ELSE IssuePost(t, payload.value)

\* sendWebhook from the configuration check to its next await
SendAfterConfig(t) ==
  IF Blank(t.url) THEN Finish(t, Thrown(Error(MsgNotConfigured)))
  ELSE LET payload == formatWebhookPayload(t.shot, t.notes) IN
    IF ~payload.ok THEN Finish(t, payload)
    ELSE IssuePost(t, payload.value)

NeedsSettingsBothMissing(url, token) == ~Truthy(url) /\ ~Truthy(token)

\* !url || !token
NeedsSettings(url, token) == ~Truthy(url) \/ ~Truthy(token)

\* sendWebhook(shot, notes, webhookUrl, authToken) up to its first await
SendStart(shot, notes, webhookUrl, authToken) ==
  LET t == [IdleTask EXCEPT !.shot = shot, !.notes = notes,
                            !.webhookUrl = webhookUrl, !.authToken = authToken,
                            !.url = webhookUrl, !.token = authToken]
  IN IF NeedsSettings(webhookUrl, authToken)
       THEN [t EXCEPT !.pc = "settings", !.log = <<"settings">>]
       ELSE SendAfterConfig(t)

\* the non-ok branch after the error text was read
ClassifyError(status, errorText) ==
  IF status = 401 \/ status = 403 THEN Error(MsgAuth)
  ELSE IF status = 422 THEN Error(MsgValidation)
  ELSE Error(MsgHttp(status, errorText))

(***************************************************************************)
(* Initial state                                                           *)
(***************************************************************************)
\* the shot shown by the card
CardShot == ShotWith(ShotNotesObject)
CardNotes == {Null, NotesObject}

IdleHandler == [pc |-> "idle", settings |-> EmptyConfig, notes |-> Null]

Init ==
  /\ task = [i \in Slots |-> IdleTask]
  /\ settingsReq = [i \in Slots |-> IdleSettingsReq]
  /\ handler = [i \in Slots |-> IdleHandler]
  /\ isSendingWebhook = FALSE
  /\ shotLoaded = FALSE
  /\ shotNotes = Or(CardShot.notes, Null)
  /\ lastAlert = <<>>

(***************************************************************************)
(* Steps of getWebhookSettings in slot i                                   *)
(***************************************************************************)
\* fetch('/api/settings') rejects: the catch block returns the empty config
SettingsFetchFail(i) ==
  /\ settingsReq[i].pc = "fetch"
  /\ settingsReq' = [settingsReq EXCEPT ![i] =
       [pc |-> "done", outcome |-> "fetchFailed", fetched |-> Undefined,
        result |-> EmptyConfig]]
  /\ UNCHANGED <<task, cardVars>>

\* fetch('/api/settings') resolves: response.json() is awaited
SettingsFetchRespond(i) ==
  /\ settingsReq[i].pc = "fetch"
  /\ settingsReq' = [settingsReq EXCEPT ![i].pc = "json"]
  /\ UNCHANGED <<task, cardVars>>

\* response.json() rejects: the catch block returns the empty config
SettingsJsonFail(i) ==
  /\ settingsReq[i].pc = "json"
  /\ settingsReq' = [settingsReq EXCEPT ![i] =
       [pc |-> "done", outcome |-> "jsonFailed", fetched |-> Undefined,
        result |-> EmptyConfig]]
  /\ UNCHANGED <<task, cardVars>>

\* response.json() resolves to settings
SettingsJsonOk(i, settings) ==
  /\ settingsReq[i].pc = "json"
  /\ settingsReq' = [settingsReq EXCEPT ![i] =
       [pc |-> "done", outcome |-> "fetched", fetched |-> settings,
        result |-> SettingsToConfig(settings)]]
  /\ UNCHANGED <<task, cardVars>>

(***************************************************************************)
(* Steps of sendWebhook in slot i                                          *)
(***************************************************************************)
\* a caller other than the card calls sendWebhook
Call(i, shot, notes, webhookUrl, authToken) ==
  /\ task[i].pc = "idle"
  /\ handler[i].pc = "idle"
  /\ task' = [task EXCEPT ![i] = SendStart(shot, notes, webhookUrl, authToken)]
  /\ settingsReq' = [settingsReq EXCEPT ![i] =
       IF task'[i].pc = "settings" THEN StartGetWebhookSettings ELSE @]
  /\ UNCHANGED cardVars

\* await this.getWebhookSettings() resolves in sendWebhook
SendResume(i) ==
  /\ task[i].pc = "settings"
  /\ settingsReq[i].pc = "done"
  /\ LET settings == settingsReq[i].result
         t == [task[i] EXCEPT !.url = Or(task[i].url, settings.url),
                              !.token = Or(task[i].token, settings.authToken),
                              !.log = Append(task[i].log, "settingsDone")]
     IN task' = [task EXCEPT ![i] = SendAfterConfig(t)]
  /\ UNCHANGED <<settingsReq, cardVars>>

PostFailRetry(i) ==
  /\ task[i].pc = "post"
  /\ Len(task[i].log) < 4
  /\ task' = [task EXCEPT ![i].log = Append(@, "post")]
  /\ UNCHANGED <<settingsReq, cardVars>>

\* the fetch of the webhook URL rejects (TypeError): nothing came back
PostFail(i) ==
  /\ task[i].pc = "post"
  /\ task' = [task EXCEPT ![i] = Finish(task[i], CatchFetchError(TypeError))]
  /\ UNCHANGED <<settingsReq, cardVars>>

\* the fetch of the webhook URL resolves with a response
PostRespond(i, status, contentType, body) ==
  /\ task[i].pc = "post"
  /\ task[i].request.sent
  /\ LET t == [task[i] EXCEPT !.response =
                 [received |-> TRUE, status |-> status,
                  contentType |-> contentType, body |-> body]]
     IN task' = [task EXCEPT ![i] =
          IF ~ResponseOk(status) THEN [t EXCEPT !.pc = "text"]
          ELSE IF IsJsonContentType(contentType) THEN [t EXCEPT !.pc = "json"]
          ELSE Finish(t, Returned([success |-> TRUE, status |-> status]))]
  /\ UNCHANGED <<settingsReq, cardVars>>

\* response.text() resolves
TextOk(i) ==
  /\ task[i].pc = "text"
  /\ LET t == task[i]
         errorText == t.response.body
     IN task' = [task EXCEPT ![i] = Finish(t, CatchFetchError(
          ClassifyError(t.response.status, errorText)))]
  /\ UNCHANGED <<settingsReq, cardVars>>

\* response.text() rejects (TypeError): the body could not be read
TextFail(i) ==
  /\ task[i].pc = "text"
  /\ task' = [task EXCEPT ![i] = Finish(task[i], CatchFetchError(TypeError))]
  /\ UNCHANGED <<settingsReq, cardVars>>

\* response.json() settles on the body that was read
JsonParsed(i) ==
  /\ task[i].pc = "json"
  /\ LET t == task[i]
         parsed == ParseJson(t.response.body)
     IN task' = [task EXCEPT ![i] = Finish(t,
          IF parsed.ok THEN parsed ELSE CatchFetchError(parsed.error))]
  /\ UNCHANGED <<settingsReq, cardVars>>

\* response.json() rejects (TypeError): the body could not be read
JsonReadFail(i) ==
  /\ task[i].pc = "json"
  /\ task' = [task EXCEPT ![i] = Finish(task[i], CatchFetchError(TypeError))]
  /\ UNCHANGED <<settingsReq, cardVars>>

\* the caller has taken the settled result
Return(i) ==
  /\ task[i].pc = "done"
  /\ handler[i].pc = "idle"
  /\ task' = [task EXCEPT ![i] = IdleTask]
  /\ settingsReq' = [settingsReq EXCEPT ![i] = IdleSettingsReq]
  /\ UNCHANGED cardVars

SettingsSteps(i) ==
  \/ SettingsFetchFail(i)
  \/ SettingsFetchRespond(i)
  \/ SettingsJsonFail(i)
  \/ \E settings \in SettingsBodies : SettingsJsonOk(i, settings)

SendSteps(i) ==
  \/ SendResume(i)
  \/ PostFail(i)
  \/ \E status \in Statuses, contentType \in ContentTypes, body \in Bodies :
       PostRespond(i, status, contentType, body)
  \/ TextOk(i)
  \/ TextFail(i)
  \/ JsonParsed(i)
  \/ JsonReadFail(i)

Next ==
  \/ \E shot \in Shots, notes \in NotesArgs, webhookUrl \in UrlArgs,
        authToken \in TokenArgs :
       Call(DirectSlot, shot, notes, webhookUrl, authToken)
  \/ SettingsSteps(DirectSlot)
  \/ SendSteps(DirectSlot)
  \/ Return(DirectSlot)

Spec == Init /\ [][Next]_vars

(***************************************************************************)
(* HistoryCard                                                             *)
(***************************************************************************)
AlertNotConfigured ==
  <<"Webhook URL is not configured. Please configure it in Settings.">>
AlertInvalidUrl == <<"Invalid webhook URL. Please check your settings.">>
AlertSent == <<"Webhook sent successfully!">>
AlertFailed(error) == <<"Webhook failed: ", error.message>>

\* disabled={isSendingWebhook || !shot.loaded}
SendButtonDisabledWhileNotLoaded == ~shotLoaded

SendButtonDisabled == isSendingWebhook \/ ~shotLoaded

\* the parent has loaded the shot's data
ShotLoad ==
  /\ ~shotLoaded
  /\ shotLoaded' = TRUE
  /\ UNCHANGED <<task, settingsReq, handler, isSendingWebhook, shotNotes, lastAlert>>

\* handleNotesLoaded / handleNotesUpdate: ShotNotesCard reports notes
NotesChange(notes) ==
  /\ shotLoaded
  /\ shotNotes # notes
  /\ shotNotes' = notes
  /\ UNCHANGED <<task, settingsReq, handler, isSendingWebhook, shotLoaded, lastAlert>>

\* a click on the enabled button: handleSendWebhook up to its first await
Click(i) ==
  /\ ~SendButtonDisabled
  /\ handler[i].pc = "idle"
  /\ \A j \in Slots : j < i => handler[j].pc # "idle"
  /\ isSendingWebhook' = TRUE
  /\ handler' = [handler EXCEPT ![i] =
       [pc |-> "settings", settings |-> EmptyConfig, notes |-> shotNotes]]
  /\ settingsReq' = [settingsReq EXCEPT ![i] = StartGetWebhookSettings]
  /\ UNCHANGED <<task, shotLoaded, shotNotes, lastAlert>>

\* the finally block
HandlerFinally(i) ==
  /\ isSendingWebhook' = FALSE
  /\ handler' = [handler EXCEPT ![i] = IdleHandler]

\* await webhookService.getWebhookSettings() resolves in handleSendWebhook:
\* the two checks, then sendWebhook(shot, shotNotes) up to its first await
HandlerResume(i) ==
  /\ handler[i].pc = "settings"
  /\ settingsReq[i].pc = "done"
  /\ LET settings == settingsReq[i].result IN
       IF Blank(settings.url)
         THEN /\ lastAlert' = AlertNotConfigured
              /\ HandlerFinally(i)
              /\ UNCHANGED <<task, settingsReq>>
       ELSE IF ~validateWebhookUrl(settings.url)
         THEN /\ lastAlert' = AlertInvalidUrl
              /\ HandlerFinally(i)
              /\ UNCHANGED <<task, settingsReq>>
       ELSE /\ handler' = [handler EXCEPT ![i].pc = "send", ![i].settings = settings]
            /\ task' = [task EXCEPT ![i] =
                 SendStart(CardShot, handler[i].notes, Null, Null)]
            /\ settingsReq' = [settingsReq EXCEPT ![i] =
                 IF task'[i].pc = "settings" THEN StartGetWebhookSettings ELSE @]
            /\ UNCHANGED <<isSendingWebhook, lastAlert>>
  /\ UNCHANGED <<shotLoaded, shotNotes>>

\* await webhookService.sendWebhook(...) settles in handleSendWebhook
HandlerSettle(i) ==
  /\ handler[i].pc = "send"
  /\ task[i].pc = "done"
  /\ lastAlert' = IF task[i].result.ok THEN AlertSent
                  ELSE AlertFailed(task[i].result.error)
  /\ HandlerFinally(i)
  /\ task' = [task EXCEPT ![i] = IdleTask]
  /\ UNCHANGED <<settingsReq, shotLoaded, shotNotes>>

CardNext ==
  \/ ShotLoad
  \/ \E notes \in CardNotes : NotesChange(notes)
  \/ \E i \in Slots :
       \/ Click(i)
       \/ HandlerResume(i)
       \/ HandlerSettle(i)
       \/ SettingsSteps(i)
       \/ SendSteps(i)

CardSpec == Init /\ [][CardNext]_vars

(***************************************************************************)
(* Properties                                                              *)
(***************************************************************************)
\* the error taxonomy, read off the thrown error
ErrorKind(error) ==
  IF error.name # "Error" THEN "Unclassified"
  ELSE IF error.message = MsgInvalidShot THEN "InvalidInput"
  ELSE IF error.message = MsgNotConfigured THEN "ConfigurationError"
  ELSE IF error.message = MsgAuth THEN "AuthenticationError"
  ELSE IF error.message = MsgValidation THEN "ValidationError"
  ELSE IF error.message = MsgNetwork THEN "NetworkError"
  ELSE IF Len(error.message) = 4 /\ error.message[1] = "HTTP " THEN "HttpError"
  ELSE "Unclassified"

ResultKind(result) == IF result.ok THEN "Success" ELSE ErrorKind(result.error)

Taxonomy == {"InvalidInput", "ConfigurationError", "AuthenticationError",
             "ValidationError", "HttpError", "NetworkError"}

\* the caller supplied v: a non-empty string
Supplied(v) == v.type = "string" /\ v.chars # <<>>

\* what the settings source delivered for a field in slot i, if anything
FetchedField(i, field) ==
  IF settingsReq[i].outcome = "fetched" /\ settingsReq[i].fetched.type = "object"
    THEN settingsReq[i].fetched[field]
    ELSE Undefined

\* override when supplied, else the fetched value, else the empty string
Expected(override, fetched) ==
  IF Supplied(override) THEN override
  ELSE IF Supplied(fetched) THEN fetched
  ELSE EmptyStr

ExpectedUrl(i) == Expected(task[i].webhookUrl, FetchedField(i, "webhookUrl"))
ExpectedToken(i) ==
  Expected(task[i].authToken, FetchedField(i, "webhookAuthToken"))

ConfigResolved(i) == task[i].pc \notin {"idle", "settings"}

WhitespaceOnly(chars) == \A k \in 1..Len(chars) : chars[k] = " "

Count(log, event) == Cardinality({k \in 1..Len(log) : log[k] = event})

\* C1 (as claimed): a POST answered with a non-2xx status never gives a
\* success result; it fails with AuthenticationError for 401 and 403, with
\* ValidationError for 422 and otherwise with HttpError whose message carries
\* the status code and the body text.
C1_StatusClassification ==
  \A i \in Slots :
    LET t == task[i] IN
      (t.pc = "done" /\ t.response.received
         /\ ~(t.response.status >= 200 /\ t.response.status <= 299)) =>
        /\ ~t.result.ok
        /\ IF t.response.status \in {401, 403}
             THEN ErrorKind(t.result.error) = "AuthenticationError"
           ELSE IF t.response.status = 422
             THEN ErrorKind(t.result.error) = "ValidationError"
           ELSE /\ ErrorKind(t.result.error) = "HttpError"
                /\ t.result.error.message[2] = t.response.status
                /\ t.result.error.message[4] = t.response.body

\* C2 (as claimed): send fails with NetworkError exactly when the POST was
\* started and never completed with a response.
C2_NetworkErrorOnlyForTransport ==
  \A i \in Slots :
    task[i].pc = "done" =>
      (ResultKind(task[i].result) = "NetworkError"
         <=> (task[i].request.issued /\ ~task[i].response.received))

\* C3 (as claimed): a send that does not succeed fails with one of the six
\* error kinds of the taxonomy.
C3_EveryFailureClassified ==
  \A i \in Slots :
    (task[i].pc = "done" /\ ~task[i].result.ok) =>
      ErrorKind(task[i].result.error) \in Taxonomy

\* C4: once the configuration is resolved, an empty or whitespace-only URL ends
\* the send in ConfigurationError with no POST, whatever the shot and the
\* token; a non-blank URL, well-formed or not, never gives ConfigurationError,
\* and with it a missing shot gives InvalidInput.
C4_EmptyUrlIsConfigurationError ==
  \A i \in Slots :
    LET t == task[i]
        url == ExpectedUrl(i)
    IN ConfigResolved(i) =>
         IF WhitespaceOnly(url.chars)
           THEN /\ t.pc = "done"
                /\ ResultKind(t.result) = "ConfigurationError"
                /\ ~t.request.issued
                /\ Count(t.log, "post") = 0
           ELSE /\ t.pc = "done" => ResultKind(t.result) # "ConfigurationError"
                /\ (t.pc = "done" /\ t.shot = Null) =>
                     ResultKind(t.result) = "InvalidInput"

C4_Witness ==
  \E i \in Slots :
    /\ task[i].pc = "done"
    /\ task[i].shot = Null
    /\ task[i].authToken = Str(<<"o", " ">>)
    /\ ExpectedUrl(i) = Str(<<" ">>)
    /\ ResultKind(task[i].result) = "ConfigurationError"

\* C5: with both a URL and a token supplied no settings fetch is made and both
\* are used as they are; otherwise exactly one fetch is made and each resolved
\* field is the override when supplied, else the fetched value, else the empty
\* string; a failed fetch yields empty strings, so that without a URL override
\* the send ends in ConfigurationError.
C5_ConfigResolution ==
  \A i \in Slots :
    LET t == task[i]
        both == Supplied(t.webhookUrl) /\ Supplied(t.authToken)
    IN t.pc # "idle" =>
         /\ both => /\ Count(t.log, "settings") = 0
                    /\ t.url = t.webhookUrl
                    /\ t.token = t.authToken
         /\ ~both => Count(t.log, "settings") = 1
         /\ (~both /\ ConfigResolved(i)) =>
              /\ t.url = ExpectedUrl(i)
              /\ t.token = ExpectedToken(i)
         /\ (ConfigResolved(i) /\ ~both
               /\ settingsReq[i].outcome \in {"fetchFailed", "jsonFailed"}) =>
              /\ settingsReq[i].result = EmptyConfig
              /\ ~Supplied(t.webhookUrl) =>
                   (t.pc = "done" /\ ResultKind(t.result) = "ConfigurationError")

C5_Witness ==
  \E i \in Slots :
    /\ task[i].pc = "done"
    /\ task[i].webhookUrl = Null
    /\ Supplied(task[i].authToken)
    /\ settingsReq[i].outcome = "jsonFailed"
    /\ ResultKind(task[i].result) = "ConfigurationError"

\* C6 (as claimed): the payload's notes are the notes override whenever it is
\* not null, the empty string included; else the shot's notes if it has any;
\* else null.
C6_NotesOverride ==
  \A i \in Slots :
    task[i].request.issued =>
      task[i].request.body[2].notes =
        IF task[i].notes \notin {Null, Undefined} THEN task[i].notes
        ELSE IF task[i].shot.notes \notin {Null, Undefined} THEN task[i].shot.notes
        ELSE Null

\* C7: the POST carries an Authorization header exactly when the resolved
\* token is non-empty after trimming, and its value is then "Bearer " followed
\* by the resolved token.
C7_AuthorizationHeader ==
  \A i \in Slots :
    LET t == task[i]
        token == ExpectedToken(i)
    IN t.request.issued =>
         /\ ("Authorization" \in DOMAIN t.request.headers
               <=> ~WhitespaceOnly(token.chars))
         /\ "Authorization" \in DOMAIN t.request.headers =>
              t.request.headers["Authorization"] = <<"Bearer ">> \o token.chars

C7_Witness ==
  \E i \in Slots :
    /\ task[i].request.issued
    /\ task[i].authToken = Str(<<" ">>)
    /\ FetchedField(i, "webhookAuthToken") = Str(<<" ", "s">>)
    /\ "Authorization" \notin DOMAIN task[i].request.headers

\* the request events one send invocation may have made, in order
AllowedLogs ==
  {<<>>, <<"settings">>, <<"settings", "settingsDone">>,
   <<"settings", "settingsDone", "post">>, <<"post">>}

C8_Sequential ==
  \A i \in Slots :
    LET t == task[i] IN
      /\ t.log \in AllowedLogs
      /\ (t.pc # "idle" /\ settingsReq[i].pc \in {"fetch", "json"}) =>
           (t.pc = "settings" /\ ~t.request.issued)
      /\ t.request.issued => Count(t.log, "post") = 1
      /\ t.pc = "done" => settingsReq[i].pc \notin {"fetch", "json"}

C8_NoRetry ==
  \A i \in Slots :
    (task[i].pc = "done" /\ task'[i].pc # "idle") => task'[i] = task[i]

\* C8: in one send invocation at most one settings fetch and at most one POST
\* are made, the POST is not started while the settings fetch is pending, and
\* a finished invocation makes no further request.
C8_SequentialNoRetry == []C8_Sequential /\ [][C8_NoRetry]_vars

C8_Witness ==
  \E i \in Slots :
    /\ task[i].pc = "done"
    /\ ~task[i].result.ok
    /\ task[i].log = <<"settings", "settingsDone", "post">>

\* C9 (as claimed): every POST sent by a send that handleSendWebhook started
\* goes to a URL for which validateWebhookUrl returns true.
C9_CardPostsToValidatedUrl ==
  \A i \in Slots :
    (handler[i].pc = "send" /\ task[i].request.issued /\ task[i].request.sent) =>
      validateWebhookUrl(task[i].request.url)

\* C10: isSendingWebhook is true exactly while a handleSendWebhook invocation
\* is in progress, the button is disabled exactly while it is true or the shot
\* is not loaded, at most one invocation and one send of the card exist at a
\* time, and with no invocation in progress a loaded shot's button is usable.
C10_SendingFlag ==
  LET running == {i \in Slots : handler[i].pc # "idle"}
      sending == {i \in Slots : task[i].pc # "idle"}
  IN /\ isSendingWebhook <=> running # {}
     /\ Cardinality(running) <= 1
     /\ Cardinality(sending) <= 1
     /\ sending \subseteq running
     /\ SendButtonDisabled <=> (running # {} \/ ~shotLoaded)
     /\ (running = {} /\ shotLoaded) => ENABLED Click(1)

C10_Witness ==
  /\ lastAlert = AlertSent
  /\ ~isSendingWebhook
  /\ ~SendButtonDisabled
  /\ \A i \in Slots : handler[i].pc = "idle"

====
